---- MODULE Spec2Model ----
(***************************************************************************)
(* A model of DymoServices (src/src/dymo-services.js): the command encoder *)
(* (printBitmap / init), the transport dispatcher (sendDataToPrinter and   *)
(* the four transports) and printer discovery (listPrinters).              *)
(*                                                                         *)
(* JavaScript runs one callback at a time, so every synchronous stretch of *)
(* code is one action; an asynchronous operation (a child process, a       *)
(* socket, a file write) is started by one action and reports its outcome  *)
(* in a later one.  A JavaScript string is a sequence of one-character     *)
(* strings, a Buffer a sequence of numbers in 0..255; an unset or empty    *)
(* string field is the empty sequence (both are falsy in the code).        *)
(***************************************************************************)
EXTENDS Integers, Sequences, FiniteSets, TLC

(* ---------------------------------------------------------------- bounds *)

\* Call slots of one service instance: calls that can be in flight together.
MaxCalls == 2

\* The largest copy count a caller passes.
MaxCopies == 2

\* Temporary files the file system holds before a further write blocks.
MaxTmpFiles == 2

\* The longest row, in bytes, of the bitmaps the encoder is given.
MaxRowBytes == 257

\* The most rows of the bitmaps the encoder is given.
MaxRows == 65536

(* ------------------------------------------------------------- constants *)

ESC == 27

START_ESC_LEN == 313

\* The raster line marker, 0x16.
SYN == 22

PRINTER_INTERFACE_CUPS == "CUPS"

PRINTER_INTERFACE_NETWORK == "NETWORK"

PRINTER_INTERFACE_WINDOWS == "WINDOWS"

PRINTER_INTERFACE_DEVICE == "DEVICE"

\* An unset config.interface (undefined: falsy).
Unset == ""

\* "*" = 42, "E" = 69, "G" = 71, "h" = 104, "e" = 101, "B" = 66.
CMD_RESET == <<ESC, 42>>

CMD_FULL_FORM_FEED == <<ESC, 69>>

CMD_SHORT_FORM_FEED == <<ESC, 71>>

CMD_TEXT_SPEED_MODE == <<ESC, 104>>

CMD_DENSITY_NORMAL == <<ESC, 101>>

CMD_NO_DOT_TAB == <<ESC, 66, 0>>

CMD_START_ESC == [i \in 1..START_ESC_LEN |-> ESC]

(* ---------------------------------------------------------------- Buffer *)

\* Buffer.from storing a number above 255 as 255.
BufferFromClamped(arr) == [i \in 1..Len(arr) |-> IF arr[i] > 255 THEN 255 ELSE arr[i]]

\* Buffer.from(array): every element is stored as an unsigned byte.
BufferFrom(arr) == [i \in 1..Len(arr) |-> arr[i] % 256]

\* Buffer.concat(list): the bytes of the buffers, in the list's order (the
\* list is halved so that the evaluation stays shallow for long lists).
RECURSIVE BufferConcat(_)
BufferConcat(list) ==
    IF Len(list) = 0 THEN <<>>
    ELSE IF Len(list) = 1 THEN list[1]
    ELSE LET mid == Len(list) \div 2
         IN  BufferConcat(SubSeq(list, 1, mid))
                \o BufferConcat(SubSeq(list, mid + 1, Len(list)))

\* Math.ceil(a / b) for a >= 0, b > 0.
MathCeilDiv(a, b) == (a + b - 1) \div b

(* --------------------------------------------------------------- encoder *)

\* clear() leaving this.chunks as it is.
clearNothing(ch) == ch

\* clear(): this.chunks.length = 0.
clear(ch) == <<>>

\* append(buff): this.chunks.push(buff).
append(ch, buff) == Append(ch, buff)

\* init with the reset command appended before the escape preamble.
initResetFirst(ch, labelLineWidth, labelLength) ==
    LET c0 == clear(ch)
        c1 == append(c0, CMD_RESET)
        c2 == append(c1, CMD_START_ESC)
        c3 == append(c2, CMD_NO_DOT_TAB)
        labelLineWidthBytes == MathCeilDiv(labelLineWidth, 8)
        c4 == append(c3, BufferFrom(<<ESC, 68, labelLineWidthBytes>>))
        lsb == labelLength % 256
        msb == (labelLength \div 256) % 256
        c5 == append(c4, BufferFrom(<<ESC, 76, msb, lsb>>))
        c6 == append(c5, CMD_TEXT_SPEED_MODE)
    IN  append(c6, CMD_DENSITY_NORMAL)

\* init with the two bytes of the label length exchanged.
initLsbFirst(ch, labelLineWidth, labelLength) ==
    LET c0 == clear(ch)
        c1 == append(c0, CMD_START_ESC)
        c2 == append(c1, CMD_RESET)
        c3 == append(c2, CMD_NO_DOT_TAB)
        labelLineWidthBytes == MathCeilDiv(labelLineWidth, 8)
        c4 == append(c3, BufferFrom(<<ESC, 68, labelLineWidthBytes>>))
        lsb == labelLength % 256
        msb == (labelLength \div 256) % 256
        c5 == append(c4, BufferFrom(<<ESC, 76, lsb, msb>>))
        c6 == append(c5, CMD_TEXT_SPEED_MODE)
    IN  append(c6, CMD_DENSITY_NORMAL)

\* init(labelLineWidth, labelLength): the chunks after the job header.
init(ch, labelLineWidth, labelLength) ==
    LET c0 == clear(ch)
        c1 == append(c0, CMD_START_ESC)
        c2 == append(c1, CMD_RESET)
        c3 == append(c2, CMD_NO_DOT_TAB)
        labelLineWidthBytes == MathCeilDiv(labelLineWidth, 8)
        c4 == append(c3, BufferFrom(<<ESC, 68, labelLineWidthBytes>>))
        lsb == labelLength % 256
        msb == (labelLength \div 256) % 256
        c5 == append(c4, BufferFrom(<<ESC, 76, msb, lsb>>))
        c6 == append(c5, CMD_TEXT_SPEED_MODE)
    IN  append(c6, CMD_DENSITY_NORMAL)

\* The inner loop of printBitmap: rows i..N, each framed with 0x16 and
\* appended in order.
appendRasterLines(ch, imageBuffer, i) ==
    ch \o [r \in 1..(Len(imageBuffer) - i + 1) |->
              BufferFrom(<<SYN>> \o imageBuffer[i + r - 1])]

\* formFeed with the branches of its test exchanged.
formFeedExchanged(count, printCount) ==
    IF count = printCount THEN CMD_SHORT_FORM_FEED ELSE CMD_FULL_FORM_FEED

\* The form feed that ends copy number count.
formFeed(count, printCount) ==
    IF count = printCount THEN CMD_FULL_FORM_FEED ELSE CMD_SHORT_FORM_FEED

\* The outer loop of printBitmap: copies count..printCount.
RECURSIVE appendCopies(_, _, _, _)
appendCopies(ch, imageBuffer, printCount, count) ==
    IF count > printCount THEN ch
    ELSE appendCopies(append(appendRasterLines(ch, imageBuffer, 1),
                             formFeed(count, printCount)),
                      imageBuffer, printCount, count + 1)

\* The chunks printBitmap leaves in this.chunks for a valid job.
encode(ch, imageBuffer, printCount) ==
    LET labelLineWidth == Len(imageBuffer[1]) * 8
        labelLength == Len(imageBuffer)
    IN  appendCopies(init(ch, labelLineWidth, labelLength),
                     imageBuffer, printCount, 1)

(* --------------------------------------------------------------- strings *)

UpperCaseLetters == <<"A", "B", "C", "D", "E", "F", "G", "H", "I", "J", "K", "L", "M", "N", "O", "P", "Q", "R", "S", "T", "U", "V", "W", "X", "Y", "Z">>

LowerCaseLetters == <<"a", "b", "c", "d", "e", "f", "g", "h", "i", "j", "k", "l", "m", "n", "o", "p", "q", "r", "s", "t", "u", "v", "w", "x", "y", "z">>

\* One character of String.prototype.toLowerCase.
LowerChar(ch) ==
    IF \E i \in 1..26 : UpperCaseLetters[i] = ch
    THEN LowerCaseLetters[CHOOSE i \in 1..26 : UpperCaseLetters[i] = ch]
    ELSE ch

toLowerCase(s) == [i \in 1..Len(s) |-> LowerChar(s[i])]

\* The white space String.prototype.trim removes.
IsSpace(ch) == ch \in {" ", "\n", "\t", "\r"}

RECURSIVE trimStart(_)
trimStart(s) ==
    IF s # <<>> /\ IsSpace(Head(s)) THEN trimStart(Tail(s)) ELSE s

RECURSIVE trimEnd(_)
trimEnd(s) ==
    IF s # <<>> /\ IsSpace(s[Len(s)]) THEN trimEnd(SubSeq(s, 1, Len(s) - 1))
    ELSE s

trim(s) == trimEnd(trimStart(s))

\* Whether sub occurs in s at (1-based) position k.
OccursAt(s, sub, k) ==
    /\ k + Len(sub) - 1 <= Len(s)
    /\ \A j \in 1..Len(sub) : s[k + j - 1] = sub[j]

\* String.prototype.indexOf: the first (0-based) position of sub, or -1.
indexOf(s, sub) ==
    LET hits == {k \in 1..(Len(s) + 1) : OccursAt(s, sub, k)}
    IN  IF hits = {} THEN -1
        ELSE (CHOOSE k \in hits : \A h \in hits : k <= h) - 1

\* s.split(sep) for a one-character separator.
RECURSIVE splitFrom(_, _, _, _)
splitFrom(s, sep, cur, acc) ==
    IF s = <<>> THEN Append(acc, cur)
    ELSE IF Head(s) = sep THEN splitFrom(Tail(s), sep, <<>>, Append(acc, cur))
    ELSE splitFrom(Tail(s), sep, Append(cur, Head(s)), acc)

split(s, sep) == splitFrom(s, sep, <<>>, <<>>)

\* row.replace(/_+/g, " "): every run of underscores becomes one space.
RECURSIVE replaceUnderscores(_)
replaceUnderscores(s) ==
    IF s = <<>> THEN <<>>
    ELSE IF Head(s) = "_"
         THEN IF Len(s) > 1 /\ s[2] = "_" THEN replaceUnderscores(Tail(s))
              ELSE <<" ">> \o replaceUnderscores(Tail(s))
    ELSE <<Head(s)>> \o replaceUnderscores(Tail(s))

STR_DYMO == <<"d", "y", "m", "o">>

STR_DESCRIPTION == <<"d", "e", "s", "c", "r", "i", "p", "t", "i", "o", "n", ":">>

STR_DEVICEID == <<"d", "e", "v", "i", "c", "e", "i", "d">>

STR_NAME == <<"n", "a", "m", "e">>

\* /^description:/gi.test(s), on a fresh regular expression.
testDescription(s) == OccursAt(toLowerCase(s), STR_DESCRIPTION, 1)

\* line.replace(/description:/gi, ""): every occurrence is removed.
RECURSIVE removeDescription(_)
removeDescription(s) ==
    IF s = <<>> THEN <<>>
    ELSE IF OccursAt(toLowerCase(s), STR_DESCRIPTION, 1)
         THEN removeDescription(SubSeq(s, Len(STR_DESCRIPTION) + 1, Len(s)))
    ELSE <<Head(s)>> \o removeDescription(Tail(s))

\* Array.prototype.find with the predicate "is not empty"; <<>> for undefined.
RECURSIVE findNonEmpty(_)
findNonEmpty(list) ==
    IF list = <<>> THEN <<>>
    ELSE IF Head(list) # <<>> THEN Head(list)
    ELSE findNonEmpty(Tail(list))

\* list.map(el => el.trim()).
trimAll(list) == [i \in 1..Len(list) |-> trim(list[i])]

(* ------------------------------------------------------------- discovery *)

\* A PrinterDescriptor.
Printer(deviceId, name) == [deviceId |-> deviceId, name |-> name]

\* listPrintersMacLinux: the descriptors made from the output of "lpstat -e".
lpstatPrinters(stdout) ==
    LET rows == SelectSeq(split(stdout, "\n"), LAMBDA row : trim(row) # <<>>)
    IN  [i \in 1..Len(rows) |->
            Printer(trim(rows[i]), trim(replaceUnderscores(rows[i])))]

\* listPrintersMacLinux: the description in the output of "lpstat -l -p id",
\* <<>> when there is none.
lpstatDescription(value) ==
    LET lines == SelectSeq(split(value, "\n"),
                           LAMBDA line : testDescription(trim(line)))
    IN  findNonEmpty([i \in 1..Len(lines) |-> trim(removeDescription(lines[i]))])

\* updateNames dropping the printers whose lookup was rejected.
updateNamesFulfilledOnly(prs, results) ==
    LET kept == SelectSeq([idx \in 1..Len(prs) |-> idx],
                          LAMBDA idx : results[idx].status = "fulfilled")
    IN  [j \in 1..Len(kept) |->
            LET description == lpstatDescription(results[kept[j]].value)
            IN  IF description # <<>>
                THEN [prs[kept[j]] EXCEPT !.name = description]
                ELSE prs[kept[j]]]

\* listPrintersMacLinux: the names after Promise.allSettled; results[idx] is
\* [status, value], value being <<>> when the lookup was rejected.
updateNames(prs, results) ==
    [idx \in 1..Len(prs) |->
        LET result == results[idx]
            description == lpstatDescription(result.value)
        IN  IF result.status = "fulfilled" /\ result.value # <<>>
               /\ description # <<>>
            THEN [prs[idx] EXCEPT !.name = description]
            ELSE prs[idx]]

\* The number of line feeds s starts with.
RECURSIVE LineFeedRun(_)
LineFeedRun(s) ==
    IF s # <<>> /\ Head(s) = "\n" THEN 1 + LineFeedRun(Tail(s)) ELSE 0

\* stdout.split(/(\r?\n){2,}/) on text without carriage returns.  The pieces
\* the capture group adds are line feeds, which trim and filter drop again:
\* they are left out here.
RECURSIVE splitBlocksFrom(_, _, _)
splitBlocksFrom(s, cur, acc) ==
    IF s = <<>> THEN Append(acc, cur)
    ELSE IF LineFeedRun(s) >= 2
         THEN splitBlocksFrom(SubSeq(s, LineFeedRun(s) + 1, Len(s)), <<>>,
                              Append(acc, cur))
    ELSE splitBlocksFrom(Tail(s), Append(cur, Head(s)), acc)

\* The callback of printer.split(/\r?\n/).some(...) in isValidPrinter, run
\* line by line until it returns true.
RECURSIVE someLine(_, _)
someLine(lines, printerData) ==
    IF lines = <<>> THEN [isValid |-> FALSE, printerData |-> printerData]
    ELSE LET parts == trimAll(split(Head(lines), ":"))
             label == parts[1]
             value == IF Len(parts) >= 2 THEN parts[2] ELSE <<>>
             lowerLabel == toLowerCase(label)
             d1 == IF lowerLabel = STR_DEVICEID
                   THEN [printerData EXCEPT !.deviceId = value]
                   ELSE printerData
             d2 == IF lowerLabel = STR_NAME
                   THEN [d1 EXCEPT !.name = value]
                   ELSE d1
         IN  IF d2.deviceId # <<>> /\ d2.name # <<>>
             THEN [isValid |-> TRUE, printerData |-> d2]
             ELSE someLine(Tail(lines), d2)

isValidPrinter(printer) == someLine(split(printer, "\n"), Printer(<<>>, <<>>))

stdoutHandler(stdout) ==
    LET blocks == SelectSeq(trimAll(splitBlocksFrom(stdout, <<>>, <<>>)),
                            LAMBDA printer : printer # <<>>)
        checked == SelectSeq([i \in 1..Len(blocks) |-> isValidPrinter(blocks[i])],
                             LAMBDA r : r.isValid)
    IN  [i \in 1..Len(checked) |-> checked[i].printerData]

\* The predicate of printers.find in sendDataToPrinter.
isDymo(printer) ==
    printer.name # <<>> /\ indexOf(toLowerCase(printer.name), STR_DYMO) # -1

\* printers.find taking the last match instead of the first.
findDymoLast(prs) ==
    LET hits == {i \in 1..Len(prs) : isDymo(prs[i])}
    IN  IF hits = {} THEN 0 ELSE CHOOSE i \in hits : \A h \in hits : i >= h

\* printers.find(...): the index of the first match, 0 for undefined.
findDymo(prs) ==
    LET hits == {i \in 1..Len(prs) : isDymo(prs[i])}
    IN  IF hits = {} THEN 0 ELSE CHOOSE i \in hits : \A h \in hits : i <= h

(* ---------------------------------------------------------------- inputs *)

\* Bitmaps a caller passes: none, one row, rows holding command bytes, rows
\* of different lengths.
Bitmaps ==
    { <<>>,
      << <<255>> >>,
      << <<27, 69>>, <<22, 0>> >>,
      << <<1, 2, 3>>, <<>>, <<4>> >> }

PrintCounts == -1..MaxCopies

Platforms == {"win32", "darwin", "linux", "freebsd"}

STR_LOCALHOST == <<"l", "o", "c", "a", "l", "h", "o", "s", "t">>

ConfigDeviceIds == {<<>>, <<"L", "W", "_", "4", "5", "0">>}

ConfigDevices == {<<>>, <<"/", "d", "e", "v", "/", "l", "p", "0">>}

\* What "lpstat -e" prints.
LpstatOutputs ==
    { <<>>,
      <<"H", "P", "_", "J", "e", "t", "\n">>,
      <<"H", "P", "_", "J", "e", "t", "\n", "D", "Y", "M", "O", "_", "_", "L", "W", "\n">>,
      <<" ", "m", "y", "_", "d", "y", "m", "o", " ", "\n", "D", "y", "m", "o", "_", "2", "\n">> }

\* What "lpstat -l -p id" prints.
LookupOutputs ==
    { <<>>,
      <<"p", "r", "i", "n", "t", "e", "r", " ", "x", "\n", "	", "D", "e", "s", "c", "r", "i", "p", "t", "i", "o", "n", ":", " ", "O", "f", "f", "i", "c", "e", "\n">>,
      <<"D", "e", "s", "c", "r", "i", "p", "t", "i", "o", "n", ":", "\n", "D", "E", "S", "C", "R", "I", "P", "T", "I", "O", "N", ":", " ", "D", "y", "m", "o", " ", "A", "\n">> }

\* What the Win32_Printer query prints.
PowershellOutputs ==
    { <<>>,
      <<"D", "e", "v", "i", "c", "e", "I", "D", " ", ":", " ", "h", "p", "1", "\n", "N", "a", "m", "e", " ", ":", " ", "H", "P", "\n">>,
      <<"N", "a", "m", "e", ":", "h", "p", "\n", "\n", "\n", "n", "a", "m", "e", " ", ":", " ", "M", "y", " ", "D", "Y", "M", "O", "\n", "D", "e", "v", "i", "c", "e", "I", "D", " ", ":", " ", "d", ":", "1", "\n", "\n", "D", "e", "v", "i", "c", "e", "I", "D", " ", ":", " ", "d", "2", "\n", "N", "a", "m", "e", " ", ":", " ", "d", "y", "m", "o", " ", "2", "\n">> }

(* ----------------------------------------------------------------- state *)

VARIABLES
    platform,   \* process.platform
    config,     \* this.config: [interface, deviceId, device]
    chunks,     \* this.chunks
    files,      \* the temporary files that exist (their numbers)
    calls       \* per call slot: the call made through it

vars == <<platform, config, chunks, files, calls>>

Calls == 1..MaxCalls

IS_WINDOWS == platform = "win32"

IS_MACOS == platform = "darwin"

IS_LINUX == platform = "linux"

INTERFACES ==
    { PRINTER_INTERFACE_NETWORK, PRINTER_INTERFACE_CUPS,
      PRINTER_INTERFACE_WINDOWS, PRINTER_INTERFACE_DEVICE }

\* validateConfig without its test: it never throws.
validateConfigNoTest(cfg) == TRUE

\* validateConfig(config): TRUE when it does not throw.
validateConfig(cfg) == ~(cfg.interface # Unset /\ cfg.interface \notin INTERFACES)

\* new DymoServices(config) with the fields the dispatcher reads; host and
\* port are left unset, so the network transport uses its defaults.
Config(interface, deviceId, device) ==
    [interface |-> interface, deviceId |-> deviceId, device |-> device]

\* The configurations a caller may construct the service with: each interface
\* with and without the field its transport needs, no interface with and
\* without a deviceId, and an interface that does not exist.
GivenConfigs ==
    {Config(i, d, <<>>) :
        i \in {Unset, PRINTER_INTERFACE_CUPS, PRINTER_INTERFACE_WINDOWS},
        d \in ConfigDeviceIds}
    \cup {Config(PRINTER_INTERFACE_DEVICE, <<>>, d) : d \in ConfigDevices}
    \cup {Config(PRINTER_INTERFACE_NETWORK, <<>>, <<>>), Config("BOGUS", <<>>, <<>>)}

\* One entry of a call's log: what the call did to the world, or what a
\* command it ran answered ("executed" with its output, "failed").
Event(op, name, arg, data) == [op |-> op, name |-> name, arg |-> arg, data |-> data]

\* A call slot no call was made through.
IdleCall ==
    [ pc |-> "idle",
      entry |-> "none",         \* print or printBitmap
      given |-> FALSE,          \* whether an imageBuffer was passed
      imageBuffer |-> <<>>,
      printCount |-> 0,
      job |-> <<>>,             \* this.chunks as printBitmap assembled it
      buffer |-> <<>>,          \* const buffer of the last sendDataToPrinter
      printers |-> <<>>,        \* the descriptors discovery works on
      tmp |-> 0,                \* the temporary file of the Windows transport
      convert |-> "none",       \* the promise of convertImageToBitmap
      discovery |-> "none",     \* the promise of listPrinters
      transport |-> "none",     \* the promise of the transport
      outcome |-> "none",       \* how the call completed
      settled |-> 0,            \* completion signals the caller received
      log |-> <<>> ]

InFlight(k) == k.pc \notin {"idle", "done"}

\* The call's promise is settled: resolve() for "ok", reject(err) otherwise.
\* Only the first settlement of a promise counts.
settle(k, result) ==
    IF k.outcome # "none" THEN k
    ELSE [k EXCEPT !.outcome = result, !.settled = @ + 1, !.pc = "done"]

\* promise.then(resolve) with no .catch(reject): a rejection reaches nobody.
thenResolveOnly(k, result) ==
    IF result = "ok" THEN settle(k, "ok") ELSE [k EXCEPT !.pc = "done"]

\* promise.then(resolve).catch(reject): the outer promise takes the result.
thenResolveCatchReject(k, result) == settle(k, result)

logged(k, ev) == [k EXCEPT !.log = Append(@, ev)]

\* The transport's promise settles, and with it the call's.
transportSettles(k, result) ==
    thenResolveCatchReject(
        [logged(k, Event("transportSettled", result, <<>>, <<>>))
         EXCEPT !.transport = IF result = "ok" THEN "fulfilled" ELSE "rejected"],
        result)

(* ------------------------------------------------------------ transports *)

\* sendDataToNetworkPrinter, up to net.connect.
sendDataToNetworkPrinter(k, buffer, fs) ==
    [ call |-> [logged(logged(k,
                    Event("transport", PRINTER_INTERFACE_NETWORK, STR_LOCALHOST, buffer)),
                    Event("connect", "net", STR_LOCALHOST, <<>>))
                EXCEPT !.pc = "net_connecting", !.transport = "pending"],
      files |-> fs ]

\* sendDataToDevicePrinter, up to fs.writeFile.
sendDataToDevicePrinter(k, buffer, device, fs) ==
    LET k1 == logged(k, Event("transport", PRINTER_INTERFACE_DEVICE, device, buffer))
    IN  IF device = <<>>
        THEN [call |-> transportSettles(k1, "ConfigError"), files |-> fs]
        ELSE [call |-> [logged(k1, Event("writeFile", "device", device, buffer))
                        EXCEPT !.pc = "dev_write", !.transport = "pending"],
              files |-> fs]

\* sendDataToCupsPrinter without its test of deviceId.
sendDataToCupsPrinterUnchecked(k, buffer, deviceId, fs) ==
    [call |-> [logged(logged(k,
                   Event("transport", PRINTER_INTERFACE_CUPS, deviceId, buffer)),
                   Event("execute", "lp", deviceId, buffer))
               EXCEPT !.pc = "lp", !.transport = "pending"],
     files |-> fs]

\* sendDataToCupsPrinter, up to execute("lp", ...).
sendDataToCupsPrinter(k, buffer, deviceId, fs) ==
    LET k1 == logged(k, Event("transport", PRINTER_INTERFACE_CUPS, deviceId, buffer))
    IN  IF deviceId = <<>>
        THEN [call |-> transportSettles(k1, "ConfigError"), files |-> fs]
        ELSE [call |-> [logged(k1, Event("execute", "lp", deviceId, buffer))
                        EXCEPT !.pc = "lp", !.transport = "pending"],
              files |-> fs]

\* tmpFile(): a name no file has.
tmpFile(fs) == CHOOSE t \in 1..(MaxTmpFiles + 1) : t \notin fs

\* sendDataToWindowsPrinter, up to execute("RP.exe", ...); written tells
\* whether fs.writeFileSync succeeded (it throws otherwise).
sendDataToWindowsPrinter(k, buffer, deviceId, fs, written) ==
    LET tmp == tmpFile(fs)
        k1 == logged(k, Event("transport", PRINTER_INTERFACE_WINDOWS, deviceId, buffer))
        k2 == logged(k1, Event("writeFile", "tmp", <<>>, buffer))
    IN  IF ~written
        THEN [call |-> transportSettles(k2, "IOError"), files |-> fs]
        ELSE [call |-> [logged(k2, Event("execute", "RP.exe", deviceId, buffer))
                        EXCEPT !.pc = "rawprint", !.transport = "pending",
                               !.tmp = tmp],
              files |-> fs \cup {tmp}]

(* ------------------------------------------------------------ dispatcher *)

\* listPrinters() trying the CUPS commands on every platform but Windows.
listPrintersCupsElsewhere(k, fs) ==
    LET k1 == [logged(k, Event("listPrinters", platform, <<>>, <<>>))
               EXCEPT !.discovery = "pending"]
    IN  IF IS_WINDOWS
        THEN [call |-> [logged(k1, Event("execute", "Powershell.exe", <<>>, <<>>))
                        EXCEPT !.pc = "powershell"],
              files |-> fs]
        ELSE [call |-> [logged(k1, Event("execute", "lpstat -e", <<>>, <<>>))
                        EXCEPT !.pc = "lpstat_e"],
              files |-> fs]

\* listPrinters(), up to the first execute.
listPrinters(k, fs) ==
    LET k1 == [logged(k, Event("listPrinters", platform, <<>>, <<>>))
               EXCEPT !.discovery = "pending"]
    IN  IF IS_WINDOWS
        THEN [call |-> [logged(k1, Event("execute", "Powershell.exe", <<>>, <<>>))
                        EXCEPT !.pc = "powershell"],
              files |-> fs]
        ELSE IF IS_MACOS \/ IS_LINUX
        THEN [call |-> [logged(k1, Event("execute", "lpstat -e", <<>>, <<>>))
                        EXCEPT !.pc = "lpstat_e"],
              files |-> fs]
        ELSE [call |-> settle([k1 EXCEPT !.discovery = "rejected"],
                              "UnsupportedPlatform"),
              files |-> fs]

\* sendDataToPrinter with the CUPS branch calling the Windows transport.
sendDataToPrinterCupsAsWindows(k, cfg, ch, fs, written) ==
    LET buffer == BufferConcat(ch)
        printerInterface == cfg.interface
        k1 == [logged(k, Event("sendDataToPrinter", printerInterface, <<>>, <<>>))
               EXCEPT !.buffer = buffer]
    IN  IF printerInterface = Unset THEN listPrinters(k1, fs)
        ELSE IF printerInterface = PRINTER_INTERFACE_NETWORK
        THEN sendDataToNetworkPrinter(k1, buffer, fs)
        ELSE IF printerInterface = PRINTER_INTERFACE_CUPS
        THEN sendDataToWindowsPrinter(k1, buffer, cfg.deviceId, fs, written)
        ELSE IF printerInterface = PRINTER_INTERFACE_WINDOWS
        THEN sendDataToWindowsPrinter(k1, buffer, cfg.deviceId, fs, written)
        ELSE IF printerInterface = PRINTER_INTERFACE_DEVICE
        THEN sendDataToDevicePrinter(k1, buffer, cfg.device, fs)
        ELSE [call |-> settle(k1, "ConfigError"), files |-> fs]

\* sendDataToPrinter(): the executor of its promise.
sendDataToPrinter(k, cfg, ch, fs, written) ==
    LET buffer == BufferConcat(ch)
        printerInterface == cfg.interface
        k1 == [logged(k, Event("sendDataToPrinter", printerInterface, <<>>, <<>>))
               EXCEPT !.buffer = buffer]
    IN  IF printerInterface = Unset THEN listPrinters(k1, fs)
        ELSE IF printerInterface = PRINTER_INTERFACE_NETWORK
        THEN sendDataToNetworkPrinter(k1, buffer, fs)
        ELSE IF printerInterface = PRINTER_INTERFACE_CUPS
        THEN sendDataToCupsPrinter(k1, buffer, cfg.deviceId, fs)
        ELSE IF printerInterface = PRINTER_INTERFACE_WINDOWS
        THEN sendDataToWindowsPrinter(k1, buffer, cfg.deviceId, fs, written)
        ELSE IF printerInterface = PRINTER_INTERFACE_DEVICE
        THEN sendDataToDevicePrinter(k1, buffer, cfg.device, fs)
        ELSE [call |-> settle(k1, "ConfigError"), files |-> fs]

\* The callback with config.interface left as it was: only deviceId is kept.
onPrintersInterfaceNotKept(k, prs, cfg, ch, fs, written) ==
    LET k1 == [k EXCEPT !.printers = prs, !.discovery = "fulfilled"]
        found == findDymo(prs)
        cfg1 == [cfg EXCEPT !.deviceId = prs[found].deviceId]
        sent == sendDataToPrinter(k1, cfg1, ch, fs, written)
    IN  IF found = 0
        THEN [call |-> settle(k1, "PrinterNotFound"), config |-> cfg, files |-> fs]
        ELSE [call |-> sent.call, config |-> cfg1, files |-> sent.files]

\* The callback persisting the platform's name as the interface.
onPrintersPlatformAsInterface(k, prs, cfg, ch, fs, written) ==
    LET k1 == [k EXCEPT !.printers = prs, !.discovery = "fulfilled"]
        found == findDymo(prs)
        cfg1 == [cfg EXCEPT !.interface = platform,
                            !.deviceId = prs[found].deviceId]
        sent == sendDataToPrinter(k1, cfg1, ch, fs, written)
    IN  IF found = 0
        THEN [call |-> settle(k1, "PrinterNotFound"), config |-> cfg, files |-> fs]
        ELSE [call |-> sent.call, config |-> cfg1, files |-> sent.files]

\* The callback dispatching to the printer it found without writing it to
\* this.config.
onPrintersConfigNotKept(k, prs, cfg, ch, fs, written) ==
    LET k1 == [k EXCEPT !.printers = prs, !.discovery = "fulfilled"]
        found == findDymo(prs)
        cfg1 == [cfg EXCEPT
                    !.interface = IF IS_WINDOWS THEN PRINTER_INTERFACE_WINDOWS
                                  ELSE PRINTER_INTERFACE_CUPS,
                    !.deviceId = prs[found].deviceId]
        sent == sendDataToPrinter(k1, cfg1, ch, fs, written)
    IN  IF found = 0
        THEN [call |-> settle(k1, "PrinterNotFound"), config |-> cfg, files |-> fs]
        ELSE [call |-> sent.call, config |-> cfg, files |-> sent.files]

\* The callback sendDataToPrinter gives listPrinters().then.
onPrinters(k, prs, cfg, ch, fs, written) ==
    LET k1 == [k EXCEPT !.printers = prs, !.discovery = "fulfilled"]
        found == findDymo(prs)
        cfg1 == [cfg EXCEPT
                    !.interface = IF IS_WINDOWS THEN PRINTER_INTERFACE_WINDOWS
                                  ELSE PRINTER_INTERFACE_CUPS,
                    !.deviceId = prs[found].deviceId]
        sent == sendDataToPrinter(k1, cfg1, ch, fs, written)
    IN  IF found = 0
        THEN [call |-> settle(k1, "PrinterNotFound"), config |-> cfg, files |-> fs]
        ELSE [call |-> sent.call, config |-> cfg1, files |-> sent.files]

\* The rejection of listPrinters() reported as no printer found.
onListPrintersRejectedAsNotFound(k, err) ==
    settle([k EXCEPT !.discovery = "rejected"], "PrinterNotFound")

\* listPrinters().then(...) with no .catch(reject): the rejection reaches
\* nobody and the call's promise stays pending.
onListPrintersRejectedUncaught(k, err) ==
    [k EXCEPT !.discovery = "rejected", !.pc = "done"]

\* listPrinters() is rejected: .catch(reject) passes the error on.
onListPrintersRejected(k, err) == settle([k EXCEPT !.discovery = "rejected"], err)

\* printBitmap without its test of printCount.
printBitmapAnyCount(k, given, imageBuffer, printCount, cfg, ch, fs, written) ==
    LET k1 == [k EXCEPT !.given = given, !.imageBuffer = imageBuffer,
                        !.printCount = printCount]
        ch1 == encode(ch, imageBuffer, printCount)
        sent == sendDataToPrinter([k1 EXCEPT !.job = ch1], cfg, ch1, fs, written)
    IN  IF ~given \/ Len(imageBuffer) = 0
        THEN [call |-> settle(k1, "InvalidInput"), chunks |-> ch, files |-> fs]
        ELSE [call |-> sent.call, chunks |-> ch1, files |-> sent.files]

\* printBitmap(imageBuffer, printCount), called from the call k.
printBitmap(k, given, imageBuffer, printCount, cfg, ch, fs, written) ==
    LET k1 == [k EXCEPT !.given = given, !.imageBuffer = imageBuffer,
                        !.printCount = printCount]
        ch1 == encode(ch, imageBuffer, printCount)
        sent == sendDataToPrinter([k1 EXCEPT !.job = ch1], cfg, ch1, fs, written)
    IN  IF ~given \/ Len(imageBuffer) = 0
        THEN [call |-> settle(k1, "InvalidInput"), chunks |-> ch, files |-> fs]
        ELSE IF printCount <= 0
        THEN [call |-> settle(k1, "InvalidInput"), chunks |-> ch, files |-> fs]
        ELSE [call |-> sent.call, chunks |-> ch1, files |-> sent.files]

(* --------------------------------------------------------------- actions *)

\* The slot a new call takes: the lowest one with no call in flight.
FreeSlot(c) ==
    /\ ~InFlight(calls[c])
    /\ \A d \in 1..(c - 1) : InFlight(calls[d])

\* Callers serialize their calls on one instance (spec.md section 5).
NoneInFlight == \A d \in Calls : ~InFlight(calls[d])

\* The file system has room for the temporary files of fs.
HasRoom(fs) == fs \subseteq 1..MaxTmpFiles

\* How fs.writeFileSync can end where a call may reach it: TRUE when it
\* returns, FALSE when it throws.
WriteOutcomes ==
    IF IS_WINDOWS \/ config.interface = PRINTER_INTERFACE_WINDOWS
    THEN BOOLEAN ELSE {TRUE}

\* What execute rejects with: a non-zero exit or a launch failure.
ExecuteError == "SpoolerError"

\* A caller calls printBitmap(imageBuffer, printCount).
PrintBitmapCall(c, given, imageBuffer, printCount, written) ==
    /\ FreeSlot(c)
    /\ LET r == printBitmap([IdleCall EXCEPT !.entry = "printBitmap"],
                            given, imageBuffer, printCount,
                            config, chunks, files, written)
       IN  /\ HasRoom(r.files)
           /\ calls' = [calls EXCEPT ![c] = r.call]
           /\ chunks' = r.chunks
           /\ files' = r.files
    /\ UNCHANGED <<platform, config>>

\* A caller calls print(image, printCount): convertImageToBitmap starts.
PrintCall(c, printCount) ==
    /\ FreeSlot(c)
    /\ calls' = [calls EXCEPT ![c] =
                    [IdleCall EXCEPT !.entry = "print", !.printCount = printCount,
                                     !.pc = "converting", !.convert = "pending"]]
    /\ UNCHANGED <<platform, config, chunks, files>>

\* convertImageToBitmap settles: rejected, or fulfilled with a bitmap that
\* print hands to printBitmap (whose throw .catch(reject) passes on).
ConvertSettled(c, ok, given, imageBuffer, written) ==
    /\ calls[c].pc = "converting"
    /\ IF ~ok
       THEN /\ calls' = [calls EXCEPT ![c] =
                            settle([@ EXCEPT !.convert = "rejected"], "ConvertError")]
            /\ UNCHANGED <<chunks, files>>
       ELSE LET r == printBitmap([calls[c] EXCEPT !.convert = "fulfilled"],
                                 given, imageBuffer, calls[c].printCount,
                                 config, chunks, files, written)
            IN  /\ HasRoom(r.files)
                /\ calls' = [calls EXCEPT ![c] = r.call]
                /\ chunks' = r.chunks
                /\ files' = r.files
    /\ UNCHANGED <<platform, config>>

\* listPrintersWindows: the Win32_Printer query ends.
PowershellSettled(c, ok, stdout, written) ==
    /\ calls[c].pc = "powershell"
    /\ IF ~ok
       THEN /\ calls' = [calls EXCEPT ![c] = onListPrintersRejected(@, ExecuteError)]
            /\ UNCHANGED <<config, files>>
       ELSE LET r == onPrinters(calls[c], stdoutHandler(stdout),
                                config, chunks, files, written)
            IN  /\ HasRoom(r.files)
                /\ calls' = [calls EXCEPT ![c] = r.call]
                /\ config' = r.config
                /\ files' = r.files
    /\ UNCHANGED <<platform, chunks>>

\* listPrintersMacLinux: "lpstat -e" ends; one lookup per printer starts.
LpstatSettled(c, ok, stdout) ==
    /\ calls[c].pc = "lpstat_e"
    /\ IF ~ok
       THEN calls' = [calls EXCEPT ![c] = onListPrintersRejected(@, ExecuteError)]
       ELSE LET prs == lpstatPrinters(stdout)
                answer == Event("executed", "lpstat -e", <<>>, stdout)
                lookups == [i \in 1..Len(prs) |->
                               Event("execute", "lpstat -l -p", prs[i].deviceId, <<>>)]
            IN  calls' = [calls EXCEPT ![c] =
                             [@ EXCEPT !.printers = prs, !.pc = "lpstat_l",
                                       !.log = Append(@, answer) \o lookups]]
    /\ UNCHANGED <<platform, config, chunks, files>>

\* How one "lpstat -l -p id" can end.
LookupResults ==
    {[status |-> "rejected", value |-> <<>>]}
        \cup {[status |-> "fulfilled", value |-> o] : o \in LookupOutputs}

\* listPrintersMacLinux: Promise.allSettled(promises) is fulfilled.  The
\* names, the call with the answers logged and what the callback returns are
\* each one value, worked out once.
LookupsSettled(c, results, written) ==
    /\ calls[c].pc = "lpstat_l"
    /\ Len(results) = Len(calls[c].printers)
    /\ \E named \in {updateNames(calls[c].printers, results)} :
       \E k \in {[calls[c] EXCEPT !.log = @ \o
                     [i \in 1..Len(results) |->
                         Event(IF results[i].status = "fulfilled"
                               THEN "executed" ELSE "failed",
                               "lpstat -l -p", calls[c].printers[i].deviceId,
                               results[i].value)]]} :
       \E r \in {onPrinters(k, named, config, chunks, files, written)} :
           /\ HasRoom(r.files)
           /\ calls' = [calls EXCEPT ![c] = r.call]
           /\ config' = r.config
           /\ files' = r.files
    /\ UNCHANGED <<platform, chunks>>

\* Network transport: the connection is made and the buffer is written.
NetConnected(c) ==
    /\ calls[c].pc = "net_connecting"
    /\ calls' = [calls EXCEPT ![c] =
                    [logged(@, Event("write", "net", STR_LOCALHOST, @.buffer))
                     EXCEPT !.pc = "net_writing"]]
    /\ UNCHANGED <<platform, config, chunks, files>>

\* Network transport: the write callback runs; it does not look at the
\* error the stream passes it.
NetWriteCallback(c, err) ==
    /\ calls[c].pc = "net_writing"
    /\ calls' = [calls EXCEPT ![c] =
                    transportSettles(
                        logged(@, Event("written", IF err THEN "error" ELSE "ok",
                                        <<>>, <<>>)),
                        "ok")]
    /\ UNCHANGED <<platform, config, chunks, files>>

\* Network transport: the socket emits "error".
NetError(c) ==
    /\ calls[c].pc \in {"net_connecting", "net_writing"}
    /\ calls' = [calls EXCEPT ![c] = transportSettles(@, "ConnectionError")]
    /\ UNCHANGED <<platform, config, chunks, files>>

\* Network transport: the socket emits "timeout".
NetTimeout(c) ==
    /\ calls[c].pc \in {"net_connecting", "net_writing"}
    /\ calls' = [calls EXCEPT ![c] = transportSettles(@, "Timeout")]
    /\ UNCHANGED <<platform, config, chunks, files>>

\* CUPS transport: "lp -d deviceId" ends.
LpSettled(c, ok) ==
    /\ calls[c].pc = "lp"
    /\ calls' = [calls EXCEPT ![c] =
                    transportSettles(@, IF ok THEN "ok" ELSE ExecuteError)]
    /\ UNCHANGED <<platform, config, chunks, files>>

\* Windows transport: RP.exe ends; after a success the temporary file is
\* unlinked (unlinked tells whether fs.unlinkSync succeeded).
RawPrintSettled(c, ok, unlinked) ==
    /\ calls[c].pc = "rawprint"
    /\ IF ~ok
       THEN /\ calls' = [calls EXCEPT ![c] = transportSettles(@, ExecuteError)]
            /\ UNCHANGED files
       ELSE /\ calls' = [calls EXCEPT ![c] =
                            transportSettles(logged(@, Event("unlink", "tmp", <<>>, <<>>)),
                                             IF unlinked THEN "ok" ELSE "IOError")]
            /\ files' = IF unlinked THEN files \ {calls[c].tmp} ELSE files
    /\ UNCHANGED <<platform, config, chunks>>

\* Device transport: the callback of fs.writeFile runs.
DeviceWritten(c, err) ==
    /\ calls[c].pc = "dev_write"
    /\ calls' = [calls EXCEPT ![c] =
                    transportSettles(@, IF err THEN "IOError" ELSE "ok")]
    /\ UNCHANGED <<platform, config, chunks, files>>

(* --------------------------------------------------------- specification *)

\* After new DymoServices(config): the constructor did not throw.
Init ==
    /\ platform \in Platforms
    /\ config \in {cfg \in GivenConfigs : validateConfig(cfg)}
    /\ chunks = <<>>
    /\ files = {}
    /\ calls = [c \in Calls |-> IdleCall]

\* What runs once a call is in flight.
Step(c) ==
    \/ \E ok \in BOOLEAN, given \in BOOLEAN, m \in Bitmaps, written \in WriteOutcomes :
          (given \/ m = <<>>) /\ ConvertSettled(c, ok, given, m, written)
    \/ \E ok \in BOOLEAN, stdout \in PowershellOutputs, written \in WriteOutcomes :
          PowershellSettled(c, ok, stdout, written)
    \/ \E ok \in BOOLEAN, stdout \in LpstatOutputs : LpstatSettled(c, ok, stdout)
    \/ \E n \in 0..2 : \E results \in [1..n -> LookupResults], written \in WriteOutcomes :
          LookupsSettled(c, results, written)
    \/ NetConnected(c)
    \/ \E err \in BOOLEAN : NetWriteCallback(c, err)
    \/ NetError(c)
    \/ NetTimeout(c)
    \/ \E ok \in BOOLEAN : LpSettled(c, ok)
    \/ \E ok \in BOOLEAN, unlinked \in BOOLEAN : RawPrintSettled(c, ok, unlinked)
    \/ \E err \in BOOLEAN : DeviceWritten(c, err)

\* A caller starts a call.
Start(c) ==
    \/ \E given \in BOOLEAN, m \in Bitmaps, n \in PrintCounts, written \in WriteOutcomes :
          (given \/ m = <<>>) /\ PrintBitmapCall(c, given, m, n, written)
    \/ \E n \in PrintCounts : PrintCall(c, n)

\* Calls on the instance, one at a time.
Next == \E c \in Calls : (NoneInFlight /\ Start(c)) \/ Step(c)

Spec == Init /\ [][Next]_vars

(* ------------------------------------------------ concurrent calls *)

\* Two jobs that differ in rows, row length, bytes and copy count.
ConcurrentJobs ==
    { [imageBuffer |-> << <<255>> >>, printCount |-> MaxCopies],
      [imageBuffer |-> << <<27, 69>>, <<22, 0>> >>, printCount |-> 1] }

\* An instance left to discover its printer, and instances configured for
\* the network and for CUPS.
ConcurrentConfigs ==
    { Config(Unset, <<>>, <<>>),
      Config(PRINTER_INTERFACE_NETWORK, <<>>, <<>>),
      Config(PRINTER_INTERFACE_CUPS, <<"L", "W", "_", "4", "5", "0">>, <<>>) }

InitConcurrent ==
    /\ platform \in {"win32", "linux"}
    /\ config \in {cfg \in ConcurrentConfigs : validateConfig(cfg)}
    /\ chunks = <<>>
    /\ files = {}
    /\ calls = [c \in Calls |-> IdleCall]

\* A caller calls printBitmap while earlier calls may still be in flight.
StartConcurrent(c) ==
    /\ calls[c].pc = "idle"
    /\ \E job \in ConcurrentJobs, written \in WriteOutcomes :
          PrintBitmapCall(c, TRUE, job.imageBuffer, job.printCount, written)

\* What runs once a printBitmap call is in flight.
StepConcurrent(c) ==
    \/ \E ok \in BOOLEAN, stdout \in PowershellOutputs, written \in WriteOutcomes :
          PowershellSettled(c, ok, stdout, written)
    \/ \E ok \in BOOLEAN, stdout \in LpstatOutputs : LpstatSettled(c, ok, stdout)
    \/ \E n \in 0..2 : \E results \in [1..n -> LookupResults], written \in WriteOutcomes :
          LookupsSettled(c, results, written)
    \/ NetConnected(c)
    \/ \E err \in BOOLEAN : NetWriteCallback(c, err)
    \/ NetError(c)
    \/ NetTimeout(c)
    \/ \E ok \in BOOLEAN : LpSettled(c, ok)
    \/ \E ok \in BOOLEAN, unlinked \in BOOLEAN : RawPrintSettled(c, ok, unlinked)

\* Calls on the instance with nothing keeping them apart: each callback runs
\* to completion, in any order the operations they wait for may end.
NextConcurrent == \E c \in Calls : StartConcurrent(c) \/ StepConcurrent(c)

SpecConcurrent == InitConcurrent /\ [][NextConcurrent]_vars

(* ------------------------------------------- calls that run to an end *)

\* The job of the calls followed to their end: one row, one copy.
LiveBitmap == << <<255>> >>

\* What "lpstat -e" prints there: nothing, or two printers, one a DYMO.
LiveLpstatOutputs ==
    { <<>>,
      <<"H", "P", "_", "J", "e", "t", "\n", "D", "Y", "M", "O", "_", "_", "L", "W", "\n">> }

\* How one "lpstat -l -p id" can end there: rejected, without a description,
\* or with a description that names no DYMO.
LiveLookupResults ==
    { [status |-> "rejected", value |-> <<>>],
      [status |-> "fulfilled", value |-> <<>>],
      [status |-> "fulfilled",
       value |-> <<"D", "e", "s", "c", "r", "i", "p", "t", "i", "o", "n", ":", "x">>] }

\* A caller starts a call with a valid job.
StartLive(c) ==
    \/ \E written \in WriteOutcomes : PrintBitmapCall(c, TRUE, LiveBitmap, 1, written)
    \/ PrintCall(c, 1)

\* What runs once a call is in flight: the callback of whichever operation
\* the call waits for (the lookups answer once per printer enumerated).
StepLive(c) ==
    \/ \E ok \in BOOLEAN, written \in WriteOutcomes :
          ConvertSettled(c, ok, TRUE, LiveBitmap, written)
    \/ \E ok \in BOOLEAN, stdout \in PowershellOutputs, written \in WriteOutcomes :
          PowershellSettled(c, ok, stdout, written)
    \/ \E ok \in BOOLEAN, stdout \in LiveLpstatOutputs : LpstatSettled(c, ok, stdout)
    \/ /\ calls[c].pc = "lpstat_l"
       /\ \E results \in [1..Len(calls[c].printers) -> LiveLookupResults],
              written \in WriteOutcomes :
             LookupsSettled(c, results, written)
    \/ NetConnected(c)
    \/ \E err \in BOOLEAN : NetWriteCallback(c, err)
    \/ NetError(c)
    \/ NetTimeout(c)
    \/ \E ok \in BOOLEAN : LpSettled(c, ok)
    \/ \E ok \in BOOLEAN, unlinked \in BOOLEAN : RawPrintSettled(c, ok, unlinked)
    \/ \E err \in BOOLEAN : DeviceWritten(c, err)

\* Calls on the instance, one at a time.
NextLive == \E c \in Calls : (NoneInFlight /\ StartLive(c)) \/ StepLive(c)

\* Every operation a call waits for (the image conversion, a child process,
\* a socket, a file write) reports an outcome, upon which the event loop runs
\* the callback waiting for it.
Fairness == WF_vars(\E c \in Calls : StepLive(c))

SpecLive == Init /\ [][NextLive]_vars /\ Fairness

(* ------------------------------------------------------- the encoder *)

\* A bitmap of the given number of rows, each of rowBytes bytes.
Bitmap(rows, rowBytes) ==
    [i \in 1..rows |-> [j \in 1..rowBytes |-> (i + 3 * j) % 256]]

\* The row counts the encoder is given: short labels, the counts around 256,
\* the 1052 rows of a standard label, and the counts around 2^16.
EncoderRowCounts == {1, 2, 255, 256, 257, 1052, 65535, MaxRows}

\* Bitmaps of every row length, and one-byte-wide bitmaps of every row count.
EncoderBitmaps ==
    {Bitmap(rows, rowBytes) : rows \in {1, 2}, rowBytes \in 1..MaxRowBytes}
        \cup {Bitmap(rows, 1) : rows \in EncoderRowCounts}

\* A fresh instance configured for the network.
InitEncoder ==
    /\ platform = "linux"
    /\ config = Config(PRINTER_INTERFACE_NETWORK, <<>>, <<>>)
    /\ validateConfig(config)
    /\ chunks = <<>>
    /\ files = {}
    /\ calls = [c \in Calls |-> IdleCall]

\* The first call on the instance: printBitmap(imageBuffer), one copy.
NextEncoder ==
    \E m \in EncoderBitmaps :
        /\ \A c \in Calls : calls[c].pc = "idle"
        /\ PrintBitmapCall(1, TRUE, m, 1, TRUE)

SpecEncoder == InitEncoder /\ [][NextEncoder]_vars

(* ---------------------------------------------------------------- claims *)

\* The call k ran printBitmap and passed its validation.
Validated(k) ==
    /\ k.pc \notin {"idle", "converting"}
    /\ k.given
    /\ Len(k.imageBuffer) > 0
    /\ k.printCount >= 1

\* The entries of a call's log with the given op.
Events(k, op) == SelectSeq(k.log, LAMBDA ev : ev.op = op)

\* The bytes of a list of chunks, joined from the last chunk backwards.
RECURSIVE C1_Join(_)
C1_Join(list) ==
    IF Len(list) = 0 THEN <<>>
    ELSE C1_Join(SubSeq(list, 1, Len(list) - 1)) \o list[Len(list)]

\* START_ESC, RESET, NO_DOT_TAB, SET_BYTES_PER_LINE, SET_LABEL_LENGTH,
\* TEXT_SPEED_MODE, DENSITY_NORMAL for the bitmap m.
C1_Header(m) ==
    << [i \in 1..313 |-> 27], <<27, 42>>, <<27, 66, 0>>, <<27, 68, Len(m[1])>>,
       <<27, 76, Len(m) \div 256, Len(m) % 256>>, <<27, 104>>, <<27, 101>> >>

\* One copy: a raster line per row, then a form feed.
C1_Copy(m, last) ==
    [i \in 1..(Len(m) + 1) |->
        IF i <= Len(m) THEN <<22>> \o m[i]
        ELSE IF last THEN <<27, 69>> ELSE <<27, 71>>]

C1_Job(m, n) == C1_Header(m) \o C1_Join([j \in 1..n |-> C1_Copy(m, j = n)])

\* C1: for every non-empty bitmap and copy count n >= 1 the chunks printBitmap
\* assembles, and the buffer made of them, are the header commands in their
\* order followed, for each of the n copies, by one raster line per row (0x16
\* and the row's bytes) and one form feed, and nothing else.
C1_ChunkSequence ==
    \A c \in Calls :
        Validated(calls[c]) =>
            /\ calls[c].job = C1_Job(calls[c].imageBuffer, calls[c].printCount)
            /\ calls[c].buffer =
                 C1_Join(C1_Job(calls[c].imageBuffer, calls[c].printCount))

\* A job of two copies of a bitmap of several rows was assembled and delivered.
C1_Witness ==
    \E c \in Calls :
        /\ Validated(calls[c])
        /\ calls[c].printCount = 2
        /\ Len(calls[c].imageBuffer) >= 2
        /\ calls[c].outcome = "ok"

\* The places of the form feed chunks in a job.
C2_FormFeeds(job) == {i \in 1..Len(job) : job[i] \in {<<27, 69>>, <<27, 71>>}}

\* C2: a job of n copies holds exactly n form feeds, one after each copy's
\* raster lines; the last chunk of the job is FULL_FORM_FEED and every form
\* feed before it is SHORT_FORM_FEED.
C2_FormFeedPlacement ==
    \A c \in Calls :
        Validated(calls[c]) =>
            LET job == calls[c].job
                n == calls[c].printCount
                rows == Len(calls[c].imageBuffer)
            IN  /\ Cardinality(C2_FormFeeds(job)) = n
                /\ C2_FormFeeds(job) = {7 + j * (rows + 1) : j \in 1..n}
                /\ job[Len(job)] = <<27, 69>>
                /\ \A i \in C2_FormFeeds(job) : i < Len(job) => job[i] = <<27, 71>>

\* A job of several copies holds a short form feed and ends with the full one.
C2_Witness ==
    \E c \in Calls :
        /\ Validated(calls[c])
        /\ calls[c].printCount >= 2
        /\ \E i \in 1..Len(calls[c].job) : calls[c].job[i] = <<27, 71>>
        /\ calls[c].job[Len(calls[c].job)] = <<27, 69>>

\* The name of the descriptor p contains "dymo" in any mix of cases.
C4_Match(p) ==
    \E q \in 1..Len(p.name) :
        /\ q + 3 <= Len(p.name)
        /\ p.name[q] \in {"d", "D"}
        /\ p.name[q + 1] \in {"y", "Y"}
        /\ p.name[q + 2] \in {"m", "M"}
        /\ p.name[q + 3] \in {"o", "O"}

\* Discovery was fulfilled with a list that holds a Dymo printer.
C4_Discovered(k) ==
    /\ k.discovery = "fulfilled"
    /\ \E i \in 1..Len(k.printers) : C4_Match(k.printers[i])

\* The call passed validation and its interface was configured (it ran no
\* discovery) or successfully discovered.
C3_Dispatched(k) ==
    /\ Validated(k)
    /\ k.discovery = "none" \/ C4_Discovered(k)

\* The transport whose work the log entry ev is, "" for the work of none.
C3_WorkOf(ev) ==
    IF ev.op = "connect" \/ ev.op = "write" THEN "NETWORK"
    ELSE IF ev.op = "execute" /\ ev.name = "lp" THEN "CUPS"
    ELSE IF ev.op = "execute" /\ ev.name = "RP.exe" THEN "WINDOWS"
    ELSE IF ev.op \in {"writeFile", "unlink"} /\ ev.name = "tmp" THEN "WINDOWS"
    ELSE IF ev.op = "writeFile" /\ ev.name = "device" THEN "DEVICE"
    ELSE ""

\* C3: a call that passed validation, with its interface configured or
\* discovered, hands its buffer to exactly one transport, once: the one
\* config.interface names, and no work of another transport is started.
C3_OneTransport ==
    \A c \in Calls :
        LET k == calls[c]
            t == Events(k, "transport")
        IN  /\ Len(t) <= 1
            /\ C3_Dispatched(k) =>
                  /\ Len(t) = 1
                  /\ t[1].name = config.interface
                  /\ t[1].name \in {"NETWORK", "CUPS", "WINDOWS", "DEVICE"}
                  /\ t[1].data = k.buffer
                  /\ \A i \in 1..Len(k.log) :
                        C3_WorkOf(k.log[i]) \in {"", t[1].name}

\* A dispatched call reached the Windows transport, once, and it succeeded.
C3_Witness ==
    \E c \in Calls :
          /\ C3_Dispatched(calls[c])
          /\ calls[c].pc = "done"
          /\ Len(Events(calls[c], "transport")) = 1
          /\ Events(calls[c], "transport")[1].name = "WINDOWS"
          /\ calls[c].outcome = "ok"

\* The first descriptor of the list that is a Dymo printer.
C4_First(prs) ==
    prs[CHOOSE i \in 1..Len(prs) :
            C4_Match(prs[i]) /\ \A j \in 1..(i - 1) : ~C4_Match(prs[j])]

\* C4: when dispatch runs with no interface and discovery returns a list with
\* a descriptor whose name contains "dymo" in any case, the first such
\* descriptor is selected: config.interface becomes WINDOWS on Windows and CUPS
\* elsewhere, config.deviceId its deviceId, and the job's buffer goes to that
\* transport with that deviceId.
C4_DiscoverySelectsFirstDymo ==
    \A c \in Calls :
        C4_Discovered(calls[c]) =>
            LET k == calls[c]
                first == C4_First(k.printers)
                iface == IF platform = "win32" THEN "WINDOWS" ELSE "CUPS"
                t == Events(k, "transport")
            IN  /\ config.interface = iface
                /\ config.deviceId = first.deviceId
                /\ Len(t) = 1
                /\ t[1] = Event("transport", iface, first.deviceId, C1_Join(k.job))
                /\ iface = "CUPS" =>
                      \E i \in 1..Len(k.log) :
                          k.log[i] = Event("execute", "lp", first.deviceId, C1_Join(k.job))
                /\ iface = "WINDOWS" =>
                      \/ k.outcome = "IOError"
                      \/ \E i \in 1..Len(k.log) :
                            k.log[i] = Event("execute", "RP.exe", first.deviceId,
                                             C1_Join(k.job))

\* Discovery returned two Dymo printers after another printer or none, and
\* the job was printed on the first of them.
C4_Witness ==
    \E c \in Calls :
        /\ C4_Discovered(calls[c])
        /\ \E i, j \in 1..Len(calls[c].printers) :
              i < j /\ C4_Match(calls[c].printers[i]) /\ C4_Match(calls[c].printers[j])
        /\ calls[c].outcome = "ok"

\* C5: within one call discovery runs at most once and dispatch at most
\* twice, the second time only after a discovery that found a printer; at most
\* one delivery is attempted, and a transport's failure is the last thing the
\* call does.
C5_AtMostOneRetry ==
    \A c \in Calls :
        LET k == calls[c]
        IN  /\ Len(Events(k, "listPrinters")) <= 1
            /\ Len(Events(k, "sendDataToPrinter")) <= 2
            /\ Len(Events(k, "sendDataToPrinter")) = 2 => C4_Discovered(k)
            /\ Len(Events(k, "transport")) <= 1
            /\ \A i \in 1..Len(k.log) :
                  (k.log[i].op = "transportSettled" /\ k.log[i].name # "ok") =>
                      i = Len(k.log) /\ k.pc = "done"

\* A call discovered its printer, dispatched again and saw the transport fail.
C5_Witness ==
    \E c \in Calls :
        /\ Len(Events(calls[c], "listPrinters")) = 1
        /\ Len(Events(calls[c], "sendDataToPrinter")) = 2
        /\ calls[c].transport = "rejected"
        /\ calls[c].pc = "done"

\* C6: a call completes through one completion signal that matches its work:
\* success only when the transport succeeded, failure whenever the image
\* conversion, discovery or the transport failed, never both, and a call with
\* nothing left in flight has reported its outcome.
C6_OutcomeMatchesWork ==
    \A c \in Calls :
        LET k == calls[c]
        IN  /\ k.settled <= 1
            /\ k.settled = 1 <=> k.outcome # "none"
            /\ k.outcome = "ok" =>
                  /\ k.transport = "fulfilled"
                  /\ k.convert # "rejected"
                  /\ k.discovery # "rejected"
            /\ k.transport = "fulfilled" => k.outcome = "ok"
            /\ (k.convert = "rejected" \/ k.discovery = "rejected"
                    \/ k.transport = "rejected") =>
                  k.outcome \notin {"none", "ok"}
            /\ k.pc = "done" => k.outcome # "none"

\* A print call failed because its transport failed after discovery.
C6_Witness ==
    \E c \in Calls :
        /\ calls[c].entry = "print"
        /\ calls[c].convert = "fulfilled"
        /\ calls[c].discovery = "fulfilled"
        /\ calls[c].transport = "rejected"
        /\ calls[c].outcome = "SpoolerError"

\* C7 (the claim as stated): once a Windows delivery has completed, with the
\* helper having succeeded or failed, the temporary file it wrote is gone.
\* Stated for deliveries to a configured deviceId whose file operations
\* themselves did not fail.
C7_TmpFileDeleted ==
    \A c \in Calls :
        (/\ calls[c].pc = "done"
         /\ calls[c].tmp # 0
         /\ calls[c].outcome # "IOError"
         /\ \E i \in 1..Len(calls[c].log) :
               calls[c].log[i].op = "transport" /\ calls[c].log[i].arg # <<>>) =>
            calls[c].tmp \notin files

\* C8 (the claim as stated): the Windows transport called with no deviceId
\* fails with ConfigError, writes no temporary file and starts no helper.
C8_WindowsNeedsDeviceId ==
    \A c \in Calls :
        \A i \in 1..Len(calls[c].log) :
            (calls[c].log[i].op = "transport" /\ calls[c].log[i].name = "WINDOWS"
                /\ calls[c].log[i].arg = <<>>) =>
                /\ calls[c].outcome = "ConfigError"
                /\ \A j \in 1..Len(calls[c].log) :
                      C3_WorkOf(calls[c].log[j]) # "WINDOWS"

\* C9: the CUPS transport called with no deviceId, and the Device transport
\* called with no device path, fail with ConfigError through the call's
\* completion signal; no lp command is started and no file is written.
C9_MissingTargetIsConfigError ==
    \A c \in Calls :
        \A i \in 1..Len(calls[c].log) :
            (calls[c].log[i].op = "transport"
                /\ calls[c].log[i].name \in {"CUPS", "DEVICE"}
                /\ calls[c].log[i].arg = <<>>) =>
                /\ calls[c].outcome = "ConfigError"
                /\ calls[c].settled = 1
                /\ calls[c].pc = "done"
                /\ \A j \in 1..Len(calls[c].log) :
                      /\ calls[c].log[j].op # "writeFile"
                      /\ ~(calls[c].log[j].op = "execute" /\ calls[c].log[j].name = "lp")

\* The CUPS transport was called with no deviceId and the call failed.
C9_Witness ==
    \E c \in Calls :
        /\ calls[c].outcome = "ConfigError"
        /\ \E i \in 1..Len(calls[c].log) :
              /\ calls[c].log[i].op = "transport"
              /\ calls[c].log[i].name = "CUPS"
              /\ calls[c].log[i].arg = <<>>

\* printBitmap was called (directly, or by print after the conversion) with
\* no matrix, a matrix of no rows, or a copy count <= 0.
C10_Invalid(k) ==
    /\ k.pc \notin {"idle", "converting"}
    /\ k.convert # "rejected"
    /\ ~k.given \/ Len(k.imageBuffer) = 0 \/ k.printCount <= 0

\* C10: printBitmap fails with InvalidInput when the matrix is missing or has
\* no rows, and when the copy count is <= 0; the call runs no discovery, calls
\* no transport and does nothing else.
C10_InvalidInputRejected ==
    \A c \in Calls :
        C10_Invalid(calls[c]) =>
            /\ calls[c].outcome = "InvalidInput"
            /\ calls[c].pc = "done"
            /\ calls[c].log = <<>>
            /\ calls[c].discovery = "none"
            /\ calls[c].transport = "none"
            /\ calls[c].tmp = 0

\* A valid matrix was rejected for its copy count of 0.
C10_Witness ==
    \E c \in Calls :
        /\ C10_Invalid(calls[c])
        /\ calls[c].given
        /\ Len(calls[c].imageBuffer) > 0
        /\ calls[c].printCount = 0
        /\ calls[c].outcome = "InvalidInput"

\* The configurations whose interface is present and is none of the four.
C11_InvalidConfigs ==
    {g \in GivenConfigs : g.interface # Unset /\ g.interface \notin INTERFACES}

\* C11: constructing the service with a configuration whose interface is
\* present and is none of NETWORK, CUPS, WINDOWS, DEVICE throws ConfigError
\* (validateConfig does not pass it), so no instance holds such a
\* configuration; an instance on which no call was made yet has touched no
\* file, assembled nothing and run nothing.
C11_InvalidInterfaceNotConstructed ==
    /\ \A g \in C11_InvalidConfigs : ~validateConfig(g) /\ config # g
    /\ (\A c \in Calls : calls[c] = IdleCall) =>
          /\ config \in GivenConfigs \ C11_InvalidConfigs
          /\ files = {}
          /\ chunks = <<>>

\* A caller may ask for the interface "BOGUS", and the instance that exists
\* (constructed, no call made yet) was given one of the four.
C11_Witness ==
    /\ \E g \in C11_InvalidConfigs : g.interface = "BOGUS"
    /\ \A c \in Calls : calls[c] = IdleCall
    /\ config.interface \in INTERFACES

\* C12: in every state of a constructed instance, after any calls and
\* discoveries, config.interface is unset or one of NETWORK, CUPS, WINDOWS,
\* DEVICE; every dispatch reads such a value, and the unknown-interface branch
\* of sendDataToPrinter is never taken: a call that fails with ConfigError was
\* failed by the transport it was handed to.
C12_InterfaceIsKnown ==
    /\ config.interface \in INTERFACES \cup {Unset}
    /\ \A c \in Calls :
          LET k == calls[c]
              sent == Events(k, "sendDataToPrinter")
          IN  /\ \A i \in 1..Len(sent) : sent[i].name \in INTERFACES \cup {Unset}
              /\ (Len(sent) > 0 /\ sent[Len(sent)].name # Unset) =>
                    Len(Events(k, "transport")) = 1
              /\ k.outcome = "ConfigError" =>
                    /\ k.transport = "rejected"
                    /\ Len(Events(k, "transport")) = 1

\* A discovery persisted the interface CUPS, the dispatch that followed read
\* it and the job was delivered.
C12_Witness ==
    \E c \in Calls :
        LET sent == Events(calls[c], "sendDataToPrinter")
        IN  /\ Len(sent) = 2
            /\ sent[1].name = Unset
            /\ sent[2].name = "CUPS"
            /\ config.interface = "CUPS"
            /\ calls[c].outcome = "ok"

\* C13 (the claim as stated): under every interleaving of printBitmap calls on
\* one instance, with the interface configured or unset, the bytes each call
\* hands to its transport are the bytes assembled from its own matrix and copy
\* count.
C13_OwnBytesDelivered ==
    \A c \in Calls :
        LET k == calls[c]
            t == Events(k, "transport")
        IN  \A i \in 1..Len(t) :
                t[i].data = C1_Join(C1_Job(k.imageBuffer, k.printCount))

\* The bytes from..to of the buffer the call k handed to its transport.
HeaderBytes(k, from, to) == SubSeq(Events(k, "transport")[1].data, from, to)

\* C14 (the claim as stated): for every valid bitmap, of any row byte
\* length, the parameter byte of SET_BYTES_PER_LINE (1B 44 n) in the
\* assembled buffer equals the byte length of the first row.
C14_BytesPerLineIsRowLength ==
    \A c \in Calls :
        Validated(calls[c]) =>
            /\ calls[c].job[4] = <<27, 68, Len(calls[c].imageBuffer[1])>>
            /\ HeaderBytes(calls[c], 319, 321) = calls[c].job[4]

\* C14, amended: the parameter byte of SET_BYTES_PER_LINE is the byte length
\* of the first row modulo 256; it equals that length for rows of at most 255
\* bytes (42 for a row of 42 bytes), and the command is the fourth chunk, at
\* bytes 319..321 of the buffer.
C14_BytesPerLineMod256 ==
    \A c \in Calls :
        Validated(calls[c]) =>
            LET w == Len(calls[c].imageBuffer[1])
            IN  /\ calls[c].job[4] = <<27, 68, w % 256>>
                /\ HeaderBytes(calls[c], 319, 321) = calls[c].job[4]
                /\ w <= 255 => calls[c].job[4][3] = w
                /\ w = 42 => calls[c].job[4] = <<27, 68, 42>>

\* A bitmap with rows of 42 bytes was encoded with the parameter byte 42 and
\* handed to the transport.
C14_Witness ==
    \E c \in Calls :
        /\ Validated(calls[c])
        /\ Len(calls[c].imageBuffer[1]) = 42
        /\ HeaderBytes(calls[c], 319, 321) = <<27, 68, 42>>

\* C15: for every bitmap whose row count L fits in 16 bits, SET_LABEL_LENGTH
\* in the assembled buffer is 1B 4C msb lsb with msb = (L >> 8) & 0xFF and
\* lsb = L & 0xFF, so that msb * 256 + lsb = L, the number of rows; for
\* L = 1052 the bytes are 4 and 28. The command is the fifth chunk, at bytes
\* 322..325 of the buffer.
C15_LabelLengthBytes ==
    \A c \in Calls :
        (Validated(calls[c]) /\ Len(calls[c].imageBuffer) < 65536) =>
            LET L == Len(calls[c].imageBuffer)
                cmd == calls[c].job[5]
            IN  /\ Len(cmd) = 4
                /\ cmd[1] = 27 /\ cmd[2] = 76
                /\ cmd[3] = (L \div 256) % 256
                /\ cmd[4] = L % 256
                /\ cmd[3] * 256 + cmd[4] = L
                /\ HeaderBytes(calls[c], 322, 325) = cmd
                /\ L = 1052 => cmd = <<27, 76, 4, 28>>

\* A bitmap of 1052 rows was encoded with the length bytes 4 and 28.
C15_Witness ==
    \E c \in Calls :
        /\ Validated(calls[c])
        /\ Len(calls[c].imageBuffer) = 1052
        /\ HeaderBytes(calls[c], 322, 325) = <<27, 76, 4, 28>>

\* The call k read an unset config.interface when it was dispatched.
C16_DispatchedUnset(k) ==
    /\ Len(Events(k, "sendDataToPrinter")) > 0
    /\ Events(k, "sendDataToPrinter")[1].name = Unset

\* Discovery ended for the call k with no Dymo printer: it failed, or its
\* list holds no name containing "dymo".
C16_NothingFound(k) ==
    \/ k.discovery = "rejected"
    \/ /\ k.discovery = "fulfilled"
       /\ \A i \in 1..Len(k.printers) : ~C4_Match(k.printers[i])

\* What C16 says of every such call but the error: discovery ran once, no
\* transport was invoked, nothing was dispatched again, and config is as it
\* was constructed, its interface unset.
C16_NothingDone(k) ==
    /\ Len(Events(k, "listPrinters")) = 1
    /\ Len(Events(k, "sendDataToPrinter")) = 1
    /\ Len(Events(k, "transport")) = 0
    /\ k.transport = "none"
    /\ k.pc = "done"
    /\ config.interface = Unset
    /\ config \in GivenConfigs

\* C16 (the claim as stated): a call dispatched with no interface whose
\* discovery fails, or finds no name containing "dymo", fails with
\* PrinterNotFound, invokes no transport and leaves config unchanged.
C16_NoDymoIsPrinterNotFound ==
    \A c \in Calls :
        (C16_DispatchedUnset(calls[c]) /\ C16_NothingFound(calls[c])) =>
            /\ calls[c].outcome = "PrinterNotFound"
            /\ C16_NothingDone(calls[c])

\* C16, amended: such a call fails with PrinterNotFound when discovery
\* succeeded and no name contains "dymo"; when discovery itself fails the
\* call fails with discovery's error, UnsupportedPlatform on a platform that
\* is not handled and the failure of the listing command otherwise. In both
\* cases no transport is invoked and config is left unchanged, and every call
\* dispatched with no interface runs discovery.
C16_NoDymoFailsUnchanged ==
    \A c \in Calls :
        LET k == calls[c]
        IN  C16_DispatchedUnset(k) =>
              /\ Len(Events(k, "listPrinters")) = 1
              /\ C16_NothingFound(k) =>
                    /\ C16_NothingDone(k)
                    /\ k.discovery = "fulfilled" => k.outcome = "PrinterNotFound"
                    /\ k.discovery = "rejected" =>
                          k.outcome = IF IS_WINDOWS \/ IS_MACOS \/ IS_LINUX
                                      THEN ExecuteError ELSE "UnsupportedPlatform"

\* Discovery listed printers, none of them a Dymo, and the call failed with
\* PrinterNotFound.
C16_Witness ==
    \E c \in Calls :
        /\ C16_DispatchedUnset(calls[c])
        /\ calls[c].discovery = "fulfilled"
        /\ Len(calls[c].printers) >= 1
        /\ C16_NothingFound(calls[c])
        /\ calls[c].outcome = "PrinterNotFound"

\* C17 (the claim as stated): the Network transport reports success only
\* after the connection was made and the write of the buffer completed
\* without error; a socket error while connecting or writing fails the call
\* with ConnectionError and the timeout with Timeout, and the call fails in
\* no other way.
C17_NetworkSuccessMeansWritten ==
    \A c \in Calls :
        LET k == calls[c]
            t == Events(k, "transport")
            w == Events(k, "written")
        IN  (Len(t) = 1 /\ t[1].name = "NETWORK") =>
              /\ k.outcome = "ok" =>
                    /\ Len(Events(k, "write")) = 1
                    /\ Len(w) = 1
                    /\ w[1].name = "ok"
              /\ (Len(w) = 1 /\ w[1].name = "error") =>
                    k.outcome = "ConnectionError"
              /\ k.outcome \in {"none", "ok", "ConnectionError", "Timeout"}

\* The destination ids in the output of the enumerate command: its lines that
\* are not blank, without the white space around them.
C18_Ids(stdout) ==
    LET rows == SelectSeq(split(stdout, "\n"),
                          LAMBDA row : \E i \in 1..Len(row) : ~IsSpace(row[i]))
    IN  [i \in 1..Len(rows) |-> trim(rows[i])]

\* The id with every underscore turned to a space.
C18_UnderscoresToSpaces(id) ==
    [i \in 1..Len(id) |-> IF id[i] = "_" THEN " " ELSE id[i]]

\* The id with every run of underscores turned to one space, without the
\* white space this leaves at its ends.
C18_RunsToSpaces(id) ==
    LET kept == SelectSeq([i \in 1..Len(id) |-> i],
                          LAMBDA i : ~(id[i] = "_" /\ i < Len(id) /\ id[i + 1] = "_"))
    IN  trim(C18_UnderscoresToSpaces([j \in 1..Len(kept) |-> id[kept[j]]]))

\* The description text in the output of a status lookup: what follows
\* "description:" (in any case) on the first line that starts with it and has
\* text after it; <<>> when there is no such line.
C18_Description(value) ==
    LET lines == split(value, "\n")
        texts == [i \in 1..Len(lines) |->
                    LET t == trim(lines[i])
                    IN  IF Len(t) >= 12 /\ toLowerCase(SubSeq(t, 1, 12)) = STR_DESCRIPTION
                        THEN trim(SubSeq(t, 13, Len(t)))
                        ELSE <<>>]
        found == {i \in 1..Len(lines) : texts[i] # <<>>}
    IN  IF found = {} THEN <<>>
        ELSE texts[CHOOSE i \in found : \A j \in found : i <= j]

\* The output of "lpstat -e" the call k received.
C18_Enumerated(k) ==
    SelectSeq(k.log, LAMBDA ev : ev.op = "executed" /\ ev.name = "lpstat -e")

\* How the status lookups of the call k ended, in the order of the printers.
C18_Lookups(k) ==
    SelectSeq(k.log, LAMBDA ev : ev.op \in {"executed", "failed"}
                                   /\ ev.name = "lpstat -l -p")

\* The name C18 gives the printer id whose lookup ended as the entry ev says.
C18_NameUnderscoresToSpaces(id, ev) ==
    IF ev.op = "executed" /\ C18_Description(ev.data) # <<>>
    THEN C18_Description(ev.data)
    ELSE C18_UnderscoresToSpaces(id)

\* The name with the fallback the code computes.
C18_NameRunsToSpaces(id, ev) ==
    IF ev.op = "executed" /\ C18_Description(ev.data) # <<>>
    THEN C18_Description(ev.data)
    ELSE C18_RunsToSpaces(id)

\* C18 (the claim as stated): when the enumerate command succeeded with k
\* ids, Unix-like listPrinters succeeds with k descriptors in that order,
\* whichever lookups failed; a name is the description text of a successful
\* lookup that has one and otherwise the id with underscores turned to
\* spaces, and the deviceId is the id.
C18_DescriptorPerId ==
    \A c \in Calls :
        LET k == calls[c]
            enum == C18_Enumerated(k)
            ids == C18_Ids(enum[1].data)
            lookups == C18_Lookups(k)
        IN  Len(enum) = 1 =>
              /\ k.discovery # "rejected"
              /\ k.pc # "lpstat_l" =>
                    /\ k.discovery = "fulfilled"
                    /\ Len(k.printers) = Len(ids)
                    /\ Len(lookups) = Len(ids)
                    /\ \A i \in 1..Len(ids) :
                          /\ k.printers[i].deviceId = ids[i]
                          /\ k.printers[i].name =
                                C18_NameUnderscoresToSpaces(ids[i], lookups[i])

\* C18, amended: the same, the fallback name being the id with every run of
\* underscores turned to one space and trimmed.
C18_DescriptorPerIdRuns ==
    \A c \in Calls :
        LET k == calls[c]
            enum == C18_Enumerated(k)
            ids == C18_Ids(enum[1].data)
            lookups == C18_Lookups(k)
        IN  Len(enum) = 1 =>
              /\ k.discovery # "rejected"
              /\ k.pc # "lpstat_l" =>
                    /\ k.discovery = "fulfilled"
                    /\ Len(k.printers) = Len(ids)
                    /\ Len(lookups) = Len(ids)
                    /\ \A i \in 1..Len(ids) :
                          /\ k.printers[i].deviceId = ids[i]
                          /\ k.printers[i].name =
                                C18_NameRunsToSpaces(ids[i], lookups[i])

\* Two ids were enumerated; the lookup of the first gave a description, which
\* is its name, and the lookup of the second failed, which left it the
\* fallback of its id.
C18_Witness ==
    \E c \in Calls :
        LET k == calls[c]
            lookups == C18_Lookups(k)
        IN  /\ Len(C18_Enumerated(k)) = 1
            /\ Len(lookups) = 2
            /\ lookups[1].op = "executed"
            /\ k.printers[1].name = C18_Description(lookups[1].data)
            /\ k.printers[1].name # <<>>
            /\ lookups[2].op = "failed"
            /\ k.printers[2].deviceId = <<"D", "Y", "M", "O", "_", "_", "L", "W">>
            /\ k.printers[2].name = <<"D", "Y", "M", "O", " ", "L", "W">>

\* C19: on a platform that is neither Windows, macOS nor Linux, listPrinters
\* fails with UnsupportedPlatform without running any external command, and
\* so does the print call with no interface that called it: it invokes no
\* transport and leaves config as it was.
C19_UnsupportedPlatformFails ==
    \A c \in Calls :
        LET k == calls[c]
            listed == Events(k, "listPrinters")
        IN  /\ (C16_DispatchedUnset(k) /\ platform \notin {"win32", "darwin", "linux"}) =>
                  Len(listed) = 1
            /\ (Len(listed) > 0 /\ listed[1].name \notin {"win32", "darwin", "linux"}) =>
                  /\ k.discovery = "rejected"
                  /\ k.outcome = "UnsupportedPlatform"
                  /\ k.settled = 1
                  /\ k.pc = "done"
                  /\ Len(Events(k, "execute")) = 0
                  /\ Len(Events(k, "transport")) = 0
                  /\ \A i \in 1..Len(k.log) :
                        k.log[i].op \in {"sendDataToPrinter", "listPrinters"}
                  /\ config.interface = Unset

\* A print call with no interface on FreeBSD failed with UnsupportedPlatform.
C19_Witness ==
    \E c \in Calls :
        /\ platform = "freebsd"
        /\ calls[c].entry = "print"
        /\ Len(Events(calls[c], "listPrinters")) = 1
        /\ calls[c].outcome = "UnsupportedPlatform"

\* The call in slot c is dispatched for the first time in this step.
C20_FirstDispatch(c) ==
    /\ Len(Events(calls[c], "sendDataToPrinter")) = 0 \/ calls[c].pc = "done"
    /\ calls'[c] # calls[c]
    /\ Len(Events(calls'[c], "sendDataToPrinter")) > 0

\* What C20 says of one step of the instance.
C20_Step ==
    /\ \A c \in Calls :
          (calls[c].pc = "done" /\ C4_Discovered(calls[c])) =>
              /\ config.interface = IF IS_WINDOWS THEN "WINDOWS" ELSE "CUPS"
              /\ config.deviceId = C4_First(calls[c].printers).deviceId
    /\ config.interface # Unset => config' = config
    /\ \A c \in Calls :
          (config.interface \in {"CUPS", "WINDOWS"} /\ C20_FirstDispatch(c)) =>
              LET k == calls'[c]
                  t == Events(k, "transport")
              IN  /\ k.discovery = "none"
                  /\ Len(Events(k, "listPrinters")) = 0
                  /\ \A i \in 1..Len(k.log) :
                        ~(k.log[i].op = "execute"
                            /\ k.log[i].name \in {"Powershell.exe", "lpstat -e"})
                  /\ Len(Events(k, "sendDataToPrinter")) = 1
                  /\ Events(k, "sendDataToPrinter")[1].name = config.interface
                  /\ Len(t) = 1
                  /\ t[1].name = config.interface
                  /\ t[1].arg = config.deviceId

\* C20: discover once, remember. Once a call has completed after a
\* successful discovery, config holds the interface and the deviceId it
\* found; from then on config does not change, and every call started later
\* runs no discovery and is dispatched once, to that interface with that
\* deviceId.
C20_DiscoverOnce == [][C20_Step]_vars

\* A call made after a discovery had persisted a printer (a deviceId no
\* caller configured) ran no discovery and printed on that printer.
C20_Witness ==
    \E c \in Calls :
        LET t == Events(calls[c], "transport")
        IN  /\ config \notin GivenConfigs
            /\ config.interface = "CUPS"
            /\ calls[c].discovery = "none"
            /\ Len(Events(calls[c], "listPrinters")) = 0
            /\ Len(t) = 1
            /\ t[1].name = "CUPS"
            /\ t[1].arg = config.deviceId
            /\ calls[c].outcome = "ok"

\* The chunks a freshly constructed instance assembles for the job of k.
C21_FreshJob(k) == encode(<<>>, k.imageBuffer, k.printCount)

\* C21: the working buffer is cleared at the start of each job. After any
\* sequence of earlier serialized calls (delivered, failed in the transport,
\* rejected for invalid input) the chunks a valid call assembles, the buffer
\* it concatenates and the bytes it hands to its transport are those a fresh
\* instance produces for the same matrix and copy count; a call rejected for
\* invalid input assembles nothing.
C21_BufferAsFresh ==
    \A c \in Calls :
        LET k == calls[c]
            t == Events(k, "transport")
        IN  /\ Validated(k) =>
                  /\ k.job = C21_FreshJob(k)
                  /\ chunks = C21_FreshJob(k)
                  /\ k.buffer = BufferConcat(C21_FreshJob(k))
                  /\ Len(k.buffer) = 313 + 2 + 3 + 3 + 4 + 2 + 2
                        + k.printCount * (2 + Len(k.imageBuffer))
                        + k.printCount * Len(BufferConcat(k.imageBuffer))
                  /\ \A i \in 1..Len(t) : t[i].data = k.buffer
            /\ C10_Invalid(k) => k.job = <<>> /\ k.buffer = <<>>

\* A valid call made on an instance whose earlier call had assembled a job
\* and discovered the printer (a deviceId no caller configured) delivered a
\* bitmap of three rows.
C21_Witness ==
    \E c \in Calls :
        /\ config \notin GivenConfigs
        /\ calls[c].discovery = "none"
        /\ Validated(calls[c])
        /\ Len(calls[c].imageBuffer) = 3
        /\ calls[c].printCount = 1
        /\ calls[c].transport = "fulfilled"

\* C22: once dispatched, a job runs to completion or failure. When every
\* operation a call starts reports an outcome, every printBitmap call that
\* passed validation settles, as success or as failure, on every path.
C22_DispatchedCallSettles ==
    \A c \in Calls :
        (Validated(calls[c]) /\ calls[c].outcome = "none")
            ~> (calls[c].outcome # "none" /\ calls[c].pc = "done")

\* A printBitmap call that passed validation went through discovery and the
\* retried dispatch, its transport settled, and so did the call.
C22_Witness ==
    \E c \in Calls :
        /\ Validated(calls[c])
        /\ calls[c].entry = "printBitmap"
        /\ calls[c].discovery = "fulfilled"
        /\ calls[c].transport \in {"fulfilled", "rejected"}
        /\ calls[c].outcome # "none"
        /\ calls[c].pc = "done"

====
